---- MODULE Spec2Model ----
(***************************************************************************)
(* ExcelWordTemplater (src/excel_word_templater/main.py): reads the rows   *)
(* of a worksheet, renders one Word template per row and saves each        *)
(* rendered document under the output folder.                              *)
(*                                                                         *)
(* Conventions.  Python's None is the empty tuple and an optional string   *)
(* s is the 1-tuple <<s>>; plain strings are TLA+ strings, built with \o   *)
(* and ToString exactly as the f-strings of the source build them.  A      *)
(* pathlib.Path is the pair <<folder, file name>>; every path of a run     *)
(* lies in the same folder, so str(path) is injective on these pairs.      *)
(* A file's content is the pair <<run, row>> of the save that wrote it,    *)
(* Pre for a file that was there before the first run.                     *)
(***************************************************************************)
EXTENDS Integers, Sequences, FiniteSets, TLC

VARIABLES
    sheet,      \* the active worksheet of the workbook at excel_path: its stored rows
    cfg,        \* the constructor's arguments
    templates,  \* the template files on disk
    dirs0,      \* the folders on disk before the first construction
    files0,     \* the output files on disk before the first construction
    dirs,       \* the folders on disk
    files,      \* the output files on disk: path -> content
    pc,         \* position of the process
    error,      \* the exception that ended the construction, "" if none
    data,       \* self.data
    default_output_name_index,  \* self.default_output_name_index, 0 while unassigned
    index,      \* run(): rows already handled (enumerate's index of the current row)
    output_paths, \* run(): output_paths
    output_path,  \* save_docx(): output_path
    probe_index,  \* save_docx(): index, 0 outside the output-name branch
    log,        \* the per-row records the logger has written
    run,        \* which construct-and-run of the process this is
    returned    \* the lists the calls of run() have returned

vars == <<sheet, cfg, templates, dirs0, files0, dirs, files, pc, error, data,
          default_output_name_index, index, output_paths, output_path,
          probe_index, log, run, returned>>

env == <<sheet, cfg, templates, dirs0, files0>>

\* ------------------------------------------------------------------ bounds
MaxRows == 2

\* ------------------------------------------------------------- Python values
None == <<>>

Pre == <<0, 0>>

Max(S) == CHOOSE m \in S : \A n \in S : n <= m

Min2(a, b) == IF a <= b THEN a ELSE b

\* x or d, for an optional string x
OrDefault(x, d) == IF x = None \/ x = <<"">> THEN d ELSE x[1]

\* Path(folder) / name
PathJoin(folder, name) == <<folder, name>>

\* ---------------------------------------------------------- configuration
data_folder == OrDefault(cfg.data_folder, "./data")

template_folder ==
    data_folder \o "/" \o OrDefault(cfg.template_folder, "templates")

output_folder ==
    data_folder \o "/" \o OrDefault(cfg.output_folder, "output")

default_output_name == OrDefault(cfg.default_output_name, "output")

Folders == <<data_folder, template_folder, output_folder>>

\* ------------------------------------------------------------- read_excel
\* ws.max_row and ws.max_column: the sheet's dimensions
max_row(ws) == Len(ws)

max_column(ws) == Max({0} \cup {Len(ws[i]) : i \in 1..Len(ws)})

\* ws.iter_rows(values_only=True) of a read-only worksheet yields every row
\* as a tuple of max_column values, None where the sheet stores no cell
iter_rows(ws) ==
    [i \in 1..Len(ws) |->
        [j \in 1..max_column(ws) |->
            IF j <= Len(ws[i]) THEN ws[i][j] ELSE None]]

\* v if v is not None else ""
CellValueKeepsNone(v) == IF v = None THEN "None" ELSE v[1]

CellValue(v) == IF v = None THEN "" ELSE v[1]

\* {k: ... for k, v in zip(headers, row)}: zip stops at the shorter of the
\* two, and a key that occurs twice keeps the value bound last
RowDict(headers, row) ==
    LET n == Min2(Len(headers), Len(row))
        keys == {headers[j] : j \in 1..n}
    IN  [k \in keys |->
            CellValue(row[Max({j \in 1..n : headers[j] = k})])]

read_excel_skips_a_row(ws) ==
    LET rows == iter_rows(ws)
        headers == rows[1]
        data_rows == SubSeq(rows, 3, Len(rows))
    IN  [i \in 1..Len(data_rows) |-> RowDict(headers, data_rows[i])]

read_excel(ws) ==
    LET rows == iter_rows(ws)
        headers == rows[1]
        data_rows == SubSeq(rows, 2, Len(rows))
    IN  [i \in 1..Len(data_rows) |-> RowDict(headers, data_rows[i])]

\* -------------------------------------------------------- render_template
\* the template files doc.render() fails on
Malformed == {PathJoin(template_folder, "broken.docx")}

template_path(row) ==
    PathJoin(template_folder, row[<<cfg.template_column>>] \o ".docx")

\* render_template(row) raises: KeyError, FileNotFoundError or the engine's error
RenderRaises(row) ==
    \/ <<cfg.template_column>> \notin DOMAIN row
    \/ row[<<cfg.template_column>>] = ""
    \/ template_path(row) \notin templates
    \/ template_path(row) \in Malformed

\* --------------------------------------------------------------- save_docx
UsesOutputColumn(row) ==
    /\ cfg.output_column # None
    /\ cfg.output_column[1] # ""
    /\ cfg.output_column \in DOMAIN row
    /\ row[cfg.output_column] # ""

\* f"{output_name}.docx"
PlainName(output_name) == output_name \o ".docx"

\* f"{output_name}_{index}.docx"
SuffixedName(output_name, i) == output_name \o "_" \o ToString(i) \o ".docx"

\* base names that lie in a subfolder the output folder does not have:
\* doc.save() raises on every path built from them
NoDirBases == {"no_dir/a"}

CanSave(path) ==
    /\ path[1] \in dirs
    /\ \A b \in NoDirBases :
          /\ path[2] # PlainName(b)
          /\ \A n \in 1..(MaxRows + 1) : path[2] # SuffixedName(b, n)

\* ------------------------------------------------------------------- inputs
TemplateColumn == "template"

HeaderChoices ==
    { << <<"template">>, <<"output">> >>,
      << <<"template">> >>,
      << <<"name">>, <<"output">> >>,
      << <<"template">>, <<"template">> >> }

OutputCells == {<<"foo">>, <<"output_1">>, <<"no_dir/a">>}

RawRows ==
    {<<>>, << <<"t1">> >>}
    \cup {<< <<"t1">>, o >> : o \in OutputCells}
    \cup {<< t, <<"foo">> >> : t \in {None, <<"bad">>, <<"broken">>}}

RECURSIVE SeqsUpTo(_, _)
SeqsUpTo(S, n) ==
    IF n = 0 THEN {<<>>}
    ELSE LET shorter == SeqsUpTo(S, n - 1)
         IN  shorter \cup {Append(s, x) : s \in {t \in shorter : Len(t) = n - 1}, x \in S}

Sheets == {<<h>> \o rows : h \in HeaderChoices, rows \in SeqsUpTo(RawRows, MaxRows)}

Configs ==
    [template_column : {TemplateColumn},
     output_column : {None, <<"output">>},
     default_output_name : {None, <<"no_dir/a">>},
     data_folder : {None},
     template_folder : {None},
     output_folder : {None}]

TemplateStore(c) ==
    LET folder == OrDefault(c.data_folder, "./data") \o "/"
                    \o OrDefault(c.template_folder, "templates")
    IN  {PathJoin(folder, "t1.docx"), PathJoin(folder, "broken.docx")}

InitialFileNames == {{"foo.docx", "foo_1.docx"}, {"output_1.docx"}}

Init ==
    /\ sheet \in Sheets
    /\ cfg \in Configs
    /\ templates = TemplateStore(cfg)
    /\ \/ /\ dirs0 = {data_folder, template_folder}
          /\ files0 = << >>
       \/ /\ dirs0 = {data_folder, template_folder, output_folder}
          /\ \E names \in InitialFileNames :
                files0 = [p \in {PathJoin(output_folder, n) : n \in names} |-> Pre]
    /\ dirs = dirs0
    /\ files = files0
    /\ pc = "Idle"
    /\ error = ""
    /\ data = None
    /\ default_output_name_index = 0
    /\ index = 0
    /\ output_paths = None
    /\ output_path = None
    /\ probe_index = 0
    /\ log = <<>>
    /\ run = 1
    /\ returned = <<>>

\* ----------------------------------------------------------------- __init__
Fail(e) ==
    /\ pc' = "Failed"
    /\ error' = e

\* openpyxl.load_workbook raises
LoadWorkbookFails ==
    /\ pc = "Idle"
    /\ Fail("LoadError")
    /\ UNCHANGED <<env, dirs, files, data, default_output_name_index, index,
                   output_paths, output_path, probe_index, log, run, returned>>

\* ws.max_row <= 1
ReadExcelEmpty ==
    /\ pc = "Idle"
    /\ max_row(sheet) <= 1
    /\ Fail("ValueError: worksheet is empty or has no data rows")
    /\ UNCHANGED <<env, dirs, files, data, default_output_name_index, index,
                   output_paths, output_path, probe_index, log, run, returned>>

ReadExcel ==
    /\ pc = "Idle"
    /\ max_row(sheet) > 1
    /\ data' = read_excel(sheet)
    /\ pc' = "Loaded"
    /\ UNCHANGED <<env, dirs, files, error, default_output_name_index, index,
                   output_paths, output_path, probe_index, log, run, returned>>

TemplateColumnMissing ==
    data = <<>> \/ <<cfg.template_column>> \notin DOMAIN data[1]

CheckTemplateColumnFails ==
    /\ pc = "Loaded"
    /\ TemplateColumnMissing
    /\ Fail("ValueError: template_column not found in data headers")
    /\ UNCHANGED <<env, dirs, files, data, default_output_name_index, index,
                   output_paths, output_path, probe_index, log, run, returned>>

CheckTemplateColumnUnchecked ==
    /\ pc = "Loaded"
    /\ default_output_name_index' = 1
    /\ pc' = "Validated"
    /\ UNCHANGED <<env, dirs, files, error, data, index, output_paths,
                   output_path, probe_index, log, run, returned>>

\* the check passes, and __init__ goes on to set its fields
CheckTemplateColumn ==
    /\ pc = "Loaded"
    /\ ~TemplateColumnMissing
    /\ default_output_name_index' = 1
    /\ pc' = "Validated"
    /\ UNCHANGED <<env, dirs, files, error, data, index, output_paths,
                   output_path, probe_index, log, run, returned>>

CreateFolders ==
    /\ pc = "Validated"
    /\ dirs' = dirs \cup {Folders[k] : k \in 1..3}
    /\ pc' = "Ready"
    /\ UNCHANGED <<env, files, error, data, default_output_name_index, index,
                   output_paths, output_path, probe_index, log, run, returned>>

\* mkdir raises on a folder that is not there yet
CreateFoldersFails ==
    /\ pc = "Validated"
    /\ \E k \in 1..3 :
          /\ Folders[k] \notin dirs
          /\ dirs' = dirs \cup {Folders[j] : j \in 1..(k - 1)}
    /\ Fail("OSError")
    /\ UNCHANGED <<env, files, data, default_output_name_index, index,
                   output_paths, output_path, probe_index, log, run, returned>>

\* ---------------------------------------------------------------------- run
Run ==
    /\ pc = "Ready"
    /\ output_paths' = <<>>
    /\ index' = 0
    /\ pc' = "Row"
    /\ UNCHANGED <<env, dirs, files, error, data, default_output_name_index,
                   output_path, probe_index, log, run, returned>>

AtRow == pc = "Row" /\ index < Len(data)

Row == data[index + 1]

LogRecord(rendered, saved) ==
    [run |-> run, row |-> index + 1, rendered |-> rendered, saved |-> saved]

RenderFailsPropagates ==
    /\ AtRow
    /\ RenderRaises(Row)
    /\ Fail("RowError")
    /\ UNCHANGED <<env, dirs, files, data, default_output_name_index, index,
                   output_paths, output_path, probe_index, log, run, returned>>

\* render_template raises; run() logs the error and goes to the next row
RenderFails ==
    /\ AtRow
    /\ RenderRaises(Row)
    /\ log' = Append(log, LogRecord(FALSE, None))
    /\ index' = index + 1
    /\ UNCHANGED <<env, dirs, files, pc, error, data, default_output_name_index,
                   output_paths, output_path, probe_index, run, returned>>

NameFromColumnProbesFromZero ==
    /\ AtRow
    /\ ~RenderRaises(Row)
    /\ UsesOutputColumn(Row)
    /\ output_path' = PathJoin(output_folder, PlainName(Row[cfg.output_column]))
    /\ probe_index' = 0
    /\ pc' = "Probe"
    /\ UNCHANGED <<env, dirs, files, error, data, default_output_name_index,
                   index, output_paths, log, run, returned>>

\* the template renders; save_docx takes the output-name branch
NameFromColumn ==
    /\ AtRow
    /\ ~RenderRaises(Row)
    /\ UsesOutputColumn(Row)
    /\ output_path' = PathJoin(output_folder, PlainName(Row[cfg.output_column]))
    /\ probe_index' = 1
    /\ pc' = "Probe"
    /\ UNCHANGED <<env, dirs, files, error, data, default_output_name_index,
                   index, output_paths, log, run, returned>>

NameDefaultKeepsCounter ==
    /\ AtRow
    /\ ~RenderRaises(Row)
    /\ ~UsesOutputColumn(Row)
    /\ output_path' = PathJoin(output_folder,
                        SuffixedName(default_output_name, default_output_name_index))
    /\ pc' = "Write"
    /\ UNCHANGED <<env, dirs, files, error, data, default_output_name_index,
                   index, output_paths, probe_index, log, run, returned>>

\* the template renders; save_docx takes the default-name branch
NameDefault ==
    /\ AtRow
    /\ ~RenderRaises(Row)
    /\ ~UsesOutputColumn(Row)
    /\ output_path' = PathJoin(output_folder,
                        SuffixedName(default_output_name, default_output_name_index))
    /\ default_output_name_index' = default_output_name_index + 1
    /\ pc' = "Write"
    /\ UNCHANGED <<env, dirs, files, error, data, index, output_paths,
                   probe_index, log, run, returned>>

\* one turn of while output_path.exists()
Probe ==
    /\ pc = "Probe"
    /\ output_path \in DOMAIN files
    /\ output_path' = PathJoin(output_folder,
                        SuffixedName(Row[cfg.output_column], probe_index))
    /\ probe_index' = probe_index + 1
    /\ UNCHANGED <<env, dirs, files, pc, error, data, default_output_name_index,
                   index, output_paths, log, run, returned>>

\* the path is chosen: the probing loop has ended, or the default name is set
Chosen ==
    \/ pc = "Write"
    \/ pc = "Probe" /\ output_path \notin DOMAIN files

WriteFile(path) ==
    [p \in DOMAIN files \cup {path} |->
        IF p = path THEN <<run, index + 1>> ELSE files[p]]

SaveOk ==
    /\ Chosen
    /\ CanSave(output_path)
    /\ files' = WriteFile(output_path)
    /\ output_paths' = Append(output_paths, output_path)
    /\ log' = Append(log, LogRecord(TRUE, <<output_path>>))
    /\ index' = index + 1
    /\ output_path' = None
    /\ probe_index' = 0
    /\ pc' = "Row"
    /\ UNCHANGED <<env, dirs, error, data, default_output_name_index, run, returned>>

SaveFailsAppends ==
    /\ Chosen
    /\ ~CanSave(output_path)
    /\ output_paths' = Append(output_paths, output_path)
    /\ log' = Append(log, LogRecord(TRUE, None))
    /\ index' = index + 1
    /\ output_path' = None
    /\ probe_index' = 0
    /\ pc' = "Row"
    /\ UNCHANGED <<env, dirs, files, error, data, default_output_name_index,
                   run, returned>>

\* doc.save raises; run() logs the error and goes to the next row
SaveFails ==
    /\ Chosen
    /\ ~CanSave(output_path)
    /\ log' = Append(log, LogRecord(TRUE, None))
    /\ index' = index + 1
    /\ output_path' = None
    /\ probe_index' = 0
    /\ pc' = "Row"
    /\ UNCHANGED <<env, dirs, files, error, data, default_output_name_index,
                   output_paths, run, returned>>

Return ==
    /\ pc = "Row"
    /\ index = Len(data)
    /\ returned' = Append(returned, output_paths)
    /\ pc' = "Done"
    /\ UNCHANGED <<env, dirs, files, error, data, default_output_name_index,
                   index, output_paths, output_path, probe_index, log, run>>

\* the process is started a second time on the same inputs
SecondRun ==
    /\ pc = "Done"
    /\ run = 1
    /\ run' = 2
    /\ pc' = "Idle"
    /\ data' = None
    /\ default_output_name_index' = 0
    /\ index' = 0
    /\ output_paths' = None
    /\ UNCHANGED <<env, dirs, files, error, output_path, probe_index, log, returned>>

Next ==
    \/ LoadWorkbookFails
    \/ ReadExcelEmpty
    \/ ReadExcel
    \/ CheckTemplateColumnFails
    \/ CheckTemplateColumn
    \/ CreateFolders
    \/ CreateFoldersFails
    \/ Run
    \/ RenderFails
    \/ NameFromColumn
    \/ NameDefault
    \/ Probe
    \/ SaveOk
    \/ SaveFails
    \/ Return
    \/ SecondRun

Spec == Init /\ [][Next]_vars

\* the process is single-threaded and runs to completion
FairSpec == Spec /\ WF_vars(Next)

\* ================================================================== claims
Running == pc \in {"Row", "Probe", "Write", "Done"}

\* the log records of the current run
ThisRun == SelectSeq(log, LAMBDA e : e.run = run)

RECURSIVE SavedPaths(_)
SavedPaths(records) ==
    IF records = <<>> THEN <<>>
    ELSE (IF Head(records).saved = None THEN <<>> ELSE Head(records).saved)
            \o SavedPaths(Tail(records))

Range(s) == {s[k] : k \in 1..Len(s)}

Distinct(s) == \A a, b \in 1..Len(s) : s[a] = s[b] => a = b

\* C1: no save overwrites an existing file: a file that was there before the
\* run keeps its content, and so does every file a row has written.
C1_NeverOverwrites ==
    /\ \A p \in DOMAIN files0 : files[p] = Pre
    /\ \A k \in 1..Len(log) :
          log[k].saved # None => files[log[k].saved[1]] = <<log[k].run, log[k].row>>

\* C2: run() returns exactly the paths of the rows that rendered and saved,
\* in row order; a failing row adds nothing and later rows are still handled.
C2_ReturnsSavedRowsInOrder ==
    Running =>
        /\ Len(ThisRun) = index
        /\ \A k \in 1..Len(ThisRun) :
              /\ ThisRun[k].row = k
              /\ ThisRun[k].rendered <=> ~RenderRaises(data[k])
              /\ ThisRun[k].saved # None =>
                    ThisRun[k].rendered /\ ThisRun[k].saved[1] \in DOMAIN files
        /\ output_paths = SavedPaths(ThisRun)
        /\ pc = "Done" => index = Len(data) /\ returned[run] = output_paths

C2_Witness ==
    /\ pc = "Done"
    /\ Len(ThisRun) = 2
    /\ ThisRun[1].saved = None
    /\ ThisRun[2].saved # None

\* the smallest free name for the output-name value v: v.docx, else v_n.docx
\* for the least n >= 1 that does not exist
SmallestFree(v) ==
    IF PathJoin(output_folder, PlainName(v)) \notin DOMAIN files
    THEN PathJoin(output_folder, PlainName(v))
    ELSE LET free(n) == PathJoin(output_folder, SuffixedName(v, n)) \notin DOMAIN files
             least == CHOOSE n \in 1..(Cardinality(DOMAIN files) + 1) :
                          free(n) /\ \A m \in 1..(n - 1) : ~free(m)
         IN  PathJoin(output_folder, SuffixedName(v, least))

\* C3: a row with a usable output-name value v is saved to v.docx if that is
\* free, else to v_n.docx for the smallest free n >= 1, and the default-name
\* counter is left alone.
C3_NamedPathIsSmallestFree ==
    [][ /\ (AtRow /\ ~RenderRaises(Row) /\ UsesOutputColumn(Row)) => pc' = "Probe"
        /\ (pc = "Probe" \/ pc' = "Probe") =>
              default_output_name_index' = default_output_name_index
        /\ (pc = "Probe" /\ pc' # "Probe") =>
              /\ output_path = SmallestFree(Row[cfg.output_column])
              /\ files' # files => files' = WriteFile(SmallestFree(Row[cfg.output_column]))
      ]_vars

C3_Witness ==
    /\ PathJoin(output_folder, "foo_2.docx") \in DOMAIN files
    /\ files[PathJoin(output_folder, "foo_2.docx")] # Pre

\* rows of this run that have reached the default-name branch of save_docx
DefaultReached ==
    Cardinality({k \in 1..Len(ThisRun) :
        ThisRun[k].rendered /\ ~UsesOutputColumn(data[ThisRun[k].row])})

\* C4: the counter is 1 plus the number of rows that have reached the
\* default-name branch, saved or not, and the k-th such row is given
\* {default_base}_k.docx whatever the output folder holds.
C4_CounterCountsDefaultRows ==
    pc \in {"Validated", "Ready", "Row", "Probe", "Write", "Done"} =>
        /\ default_output_name_index =
              1 + DefaultReached + (IF pc = "Write" THEN 1 ELSE 0)
        /\ pc = "Write" =>
              output_path = PathJoin(output_folder,
                  default_output_name \o "_" \o ToString(DefaultReached + 1) \o ".docx")

C4_Witness ==
    /\ pc = "Write"
    /\ default_output_name_index = 3
    /\ ThisRun[1].rendered
    /\ ThisRun[1].saved = None
    /\ files0 # <<>>

\* C5: a second run on the same inputs overwrites no file of the first run
\* and returns paths disjoint from those the first run returned.
C5_SecondRunDisjoint ==
    run = 2 =>
        /\ \A p \in Range(returned[1]) : files[p][1] = 1
        /\ pc = "Done" => Range(returned[1]) \cap Range(returned[2]) = {}

\* C6: the paths one run returns are pairwise distinct, so from an empty
\* output folder the folder ends with one file per returned path.
C6_OneFilePerReturnedPath ==
    (pc = "Done" /\ run = 1) =>
        /\ Distinct(output_paths)
        /\ files0 = <<>> => Cardinality(DOMAIN files) = Len(output_paths)

\* the header row as the sheet shows it: its stored cells, and an empty
\* (None) header for columns that only data rows reach
HeaderCell(j) == IF j <= Len(sheet[1]) THEN sheet[1][j] ELSE None

\* the cell of data row i in column j, None when the sheet stores none
SheetCell(i, j) == IF j <= Len(sheet[i + 1]) THEN sheet[i + 1][j] ELSE None

Columns == 1..max_column(sheet)

\* C7: read_excel returns one mapping per data row, in sheet order, each with
\* the header row as its key set; columns a short row does not reach are
\* present with the empty string.
C7_OneRowPerDataRowKeyedByHeader ==
    data # None =>
        /\ Len(data) = Len(sheet) - 1
        /\ \A i \in 1..Len(data) :
              /\ DOMAIN data[i] = {HeaderCell(j) : j \in Columns}
              /\ \A j \in Columns :
                    j > Len(sheet[i + 1]) => data[i][HeaderCell(j)] = ""
              /\ \A j \in Columns :
                    (SheetCell(i, j) # None /\ \A m \in Columns : m > j => HeaderCell(m) # HeaderCell(j))
                        => data[i][HeaderCell(j)] = SheetCell(i, j)[1]

C7_Witness ==
    /\ data # None
    /\ Len(data) = 2
    /\ Len(sheet[2]) < Len(sheet[1])
    /\ Len(sheet[3]) = Len(sheet[1])
    /\ sheet[2] # <<>>

MissingColumnError == "ValueError: template_column not found in data headers"

\* C8: when the template column is not a key of the first loaded row,
\* construction ends with the missing-column error, and no folder has been
\* created, no row handled and no file written.
C8_MissingColumnFailsBeforeAnyEffect ==
    (data # None /\ TemplateColumnMissing) =>
        /\ pc \in {"Loaded", "Failed"}
        /\ pc = "Failed" => error = MissingColumnError
        /\ dirs = dirs0
        /\ files = files0
        /\ log = <<>>
        /\ index = 0
        /\ returned = <<>>

C8_Witness ==
    /\ pc = "Failed"
    /\ error = MissingColumnError
    /\ output_folder \notin dirs
    /\ Len(data) = 2

\* the value the claim gives a cell: "" for a null or missing cell, else the cell
Expected(i, j) == IF SheetCell(i, j) = None THEN "" ELSE SheetCell(i, j)[1]

\* C9 as stated: every cell, null, missing or not, decides the value of its
\* column's key.
C9_EveryCellDecidesItsKey ==
    data # None =>
        \A i \in 1..Len(data) : \A j \in Columns :
            data[i][HeaderCell(j)] = Expected(i, j)

\* C9 as amended: the cell decides the value of its column's key when no
\* column further right has the same header; a null or missing cell gives
\* "", any other cell its value unchanged.
C9_LastCellOfAHeaderDecidesItsKey ==
    data # None =>
        \A i \in 1..Len(data) : \A j \in Columns :
            (\A m \in Columns : m > j => HeaderCell(m) # HeaderCell(j))
                => data[i][HeaderCell(j)] = Expected(i, j)

C9_Witness ==
    /\ data # None
    /\ \E i \in 1..Len(data) :
          /\ Len(sheet[i + 1]) = 2
          /\ sheet[i + 1][1] = None
          /\ data[i][HeaderCell(1)] = ""
          /\ data[i][HeaderCell(2)] = "foo"
    /\ \E i \in 1..Len(data) : Len(sheet[i + 1]) < Len(sheet[1])

\* C10: once construction has succeeded, run() returns: every row is visited
\* once, in order, and no failure of a row leaves run().
C10_RunTerminates ==
    /\ (pc = "Ready") ~> (pc = "Done")
    /\ [](pc = "Done" =>
            /\ Len(ThisRun) = Len(data)
            /\ \A k \in 1..Len(ThisRun) : ThisRun[k].row = k)
    /\ [](pc = "Failed" => ThisRun = <<>>)

C10_Witness ==
    /\ pc = "Done"
    /\ \E k \in 1..Len(ThisRun) : ~ThisRun[k].rendered
    /\ \E k \in 1..Len(ThisRun) : ThisRun[k].rendered /\ ThisRun[k].saved = None
    /\ PathJoin(output_folder, "foo_1.docx") \in DOMAIN files0

====
